---- MODULE Spec2Model ----
(***************************************************************************)
(* The daily-digest pipeline of the Learning Coach server:                 *)
(*   server.generate_daily_digest (the tool)                               *)
(*     -> DigestGenerator.generate_daily_digest                            *)
(*          -> retrieve_relevant_content (primary / relaxed search)        *)
(*          -> generate_insights_from_content (per-candidate generation    *)
(*             and scoring, then a stable descending sort)                 *)
(*          -> store_daily_insight per insight, then the summary request.  *)
(* and server.update_progress, which upserts the learner's progress row.   *)
(* Tool calls follow one another; each starts with fresh locals and an     *)
(* empty call log, the two tables keep what earlier calls wrote.           *)
(*                                                                         *)
(* Numbers of the unit interval are held in thousandths (0.25 is 250).     *)
(* Text is a sequence of tokens; the reasoning markers and a blank are     *)
(* tokens of their own.  One step of the model is the code between two     *)
(* awaits of an external collaborator; the collaborator's answer is the    *)
(* step's input.                                                           *)
(***************************************************************************)
EXTENDS Integers, Sequences, FiniteSets, TLC

VARIABLES
    tool,             \* the tool that was called last
    pc,               \* position of the tool call
    user_progress,    \* the user_progress table (progress store)
    daily_insights,   \* the daily_insights table (insight store), in insertion order
    store_at_call,    \* what the daily_insights table held when the tool was called
    num_insights,     \* the tool's argument
    user_context,     \* generate_daily_digest: user_context
    relevant_content, \* generate_daily_digest: relevant_content
    idx,              \* generate_insights_from_content: position in content_items[:max_insights]
    insight_text,     \* generate_insights_from_content: insight_text of the current item
    insights,         \* the insights list
    store_idx,        \* generate_daily_digest: position of the persistence loop
    calls,            \* every call the tool call issued to an external collaborator, in order
    result,           \* what the tool returned
    helper_call       \* a direct call of one scoring or parsing helper: argument and return value

\* the state of the tool call
pipeline_vars == <<tool, pc, user_progress, daily_insights, store_at_call, num_insights,
                   user_context, relevant_content, idx, insight_text, insights, store_idx,
                   calls, result>>

vars == <<pipeline_vars, helper_call>>

----------------------------------------------------------------------------
(* Bounds of the model *)

MaxN == 2

MaxRetrieved == 2

\* most rows the daily_insights table holds: a digest is requested only while
\* its insights still fit
MaxStored == 2

\* oldest document age, in days, given to the freshness helper
MaxAge == 92

\* how many days in the future a publication date may lie
MaxFuture == 2

\* longest raw reply, in tokens, given to the extraction helper
MaxReplyLen == 4

----------------------------------------------------------------------------
(* Program constants, in thousandths *)

PRIMARY_THRESHOLD == 250

RELAXED_THRESHOLD == 150

OVERFETCH_FACTOR == 2

W_SIMILARITY == 4

W_TOPIC == 4

W_FRESHNESS == 2

DEFAULT_SIMILARITY == 500

RECORDED_SIMILARITY_DEFAULT == 0

NEUTRAL_TOPIC_RELEVANCE == 500

NEUTRAL_FRESHNESS == 500

ONE == 1000

----------------------------------------------------------------------------
(* Text *)

Space == " "

StartTag == "<think>"

EndTag == "</think>"

EmptyStr == <<>>

Range(s) == {s[k] : k \in 1..Len(s)}

Min(a, b) == IF a <= b THEN a ELSE b

Max(a, b) == IF a >= b THEN a ELSE b

\* str.strip(): leading and trailing blanks removed
RECURSIVE LStrip(_)
LStrip(s) == IF s # <<>> /\ Head(s) = Space THEN LStrip(Tail(s)) ELSE s

RECURSIVE RStrip(_)
RStrip(s) ==
    IF s # <<>> /\ s[Len(s)] = Space THEN RStrip(SubSeq(s, 1, Len(s) - 1)) ELSE s

Strip(s) == RStrip(LStrip(s))

\* " ".join(topics)
RECURSIVE Join(_)
Join(topics) ==
    IF topics = <<>> THEN EmptyStr
    ELSE IF Len(topics) = 1 THEN topics[1]
    ELSE topics[1] \o <<Space>> \o Join(Tail(topics))

ERR_ONLY_THINKING == <<"Error: Model only generated thinking process, no insight produced.">>

ERR_INCOMPLETE == <<"Error: Incomplete response - thinking process not finished.">>

NO_PROGRESS_MESSAGE ==
    "No progress found. Please set your learning progress first using update_progress."

FIXED_SUMMARY == <<"No relevant content found for your topics today.">>

\* str(e) of an exception raised by an external collaborator
EXTERNAL_ERROR == "external call failed"

\* the position of the first occurrence instead of the last
FirstIndexOf(s, tok) ==
    LET hits == {k \in 1..Len(s) : s[k] = tok}
    IN  CHOOSE k \in hits : \A j \in hits : k <= j

\* the text after the last occurrence of tok starts behind this position
LastIndexOf(s, tok) ==
    LET hits == {k \in 1..Len(s) : s[k] = tok}
    IN  CHOOSE k \in hits : \A j \in hits : j <= k

\* an extraction that reports every reply holding a start marker as incomplete
ExtractFinalOutputStartFirst(text) ==
    IF StartTag \in Range(text) THEN ERR_INCOMPLETE
    ELSE IF EndTag \in Range(text)
    THEN LET final_output == Strip(SubSeq(text, LastIndexOf(text, EndTag) + 1, Len(text)))
         IN  IF final_output # <<>> THEN final_output ELSE ERR_ONLY_THINKING
    ELSE Strip(text)

\* GroqClient._extract_final_output
ExtractFinalOutput(text) ==
    IF EndTag \in Range(text)
    THEN LET final_output == Strip(SubSeq(text, LastIndexOf(text, EndTag) + 1, Len(text)))
         IN  IF final_output # <<>> THEN final_output ELSE ERR_ONLY_THINKING
    ELSE IF StartTag \in Range(text) THEN ERR_INCOMPLETE
    ELSE Strip(text)

----------------------------------------------------------------------------
(* Scoring *)

\* a topic relevance taken from the reply without the clamp
ScoreContentRelevanceUnclamped(reply) ==
    IF reply.numeric THEN reply.value ELSE NEUTRAL_TOPIC_RELEVANCE

\* GroqClient.score_content_relevance, after the reply arrived:
\* float(reply) clamped into [0,1], or 0.5 when the reply does not parse
ScoreContentRelevance(reply) ==
    IF reply.numeric THEN Max(0, Min(ONE, reply.value)) ELSE NEUTRAL_TOPIC_RELEVANCE

\* a freshness ladder whose middle steps are exchanged
CalculateFreshnessStepsExchanged(published) ==
    IF published.kind # "naive" THEN NEUTRAL_FRESHNESS
    ELSE IF published.days_old <= 0 THEN 1000
    ELSE IF published.days_old <= 7 THEN 900
    ELSE IF published.days_old <= 30 THEN 400
    ELSE IF published.days_old <= 90 THEN 700
    ELSE 200

\* DigestGenerator._calculate_freshness.  A timestamp with a UTC offset parses,
\* and its subtraction from the naive utcnow() raises, which the except catches.
CalculateFreshness(published) ==
    IF published.kind = "missing" THEN NEUTRAL_FRESHNESS
    ELSE IF published.kind # "naive" THEN NEUTRAL_FRESHNESS
    ELSE IF published.days_old <= 0 THEN 1000
    ELSE IF published.days_old <= 7 THEN 900
    ELSE IF published.days_old <= 30 THEN 700
    ELSE IF published.days_old <= 90 THEN 400
    ELSE 200

\* item.get("similarity", 0.5)
SimilarityForScoring(item) ==
    IF item.has_similarity THEN item.similarity ELSE DEFAULT_SIMILARITY

\* item.get("similarity", 0.0)
SimilarityRecorded(item) ==
    IF item.has_similarity THEN item.similarity ELSE RECORDED_SIMILARITY_DEFAULT

\* the sum cut to three decimals instead of rounded
Round3Truncating(x) == x \div 10

\* round(x, 3) of a sum held in ten-thousandths.  The weighted sum of
\* thousandths is even, so it is never halfway between two thousandths.
Round3(x) == (x + 5) \div 10

\* 0.4 * similarity + 0.4 * topic_relevance + 0.2 * freshness, rounded
WeightedCombination(similarity_score, topic_relevance, freshness_score) ==
    Round3(W_SIMILARITY * similarity_score + W_TOPIC * topic_relevance
           + W_FRESHNESS * freshness_score)

\* DigestGenerator._calculate_relevance_score, given the service's reply
CalculateRelevanceScore(item, reply) ==
    WeightedCombination(SimilarityForScoring(item),
                        ScoreContentRelevance(reply),
                        CalculateFreshness(item.published))

----------------------------------------------------------------------------
(* Lists *)

\* s[:n]
Take(s, n) ==
    IF n >= 0 THEN SubSeq(s, 1, Min(n, Len(s)))
    ELSE SubSeq(s, 1, Max(Len(s) + n, 0))

\* an ascending sort reversed: descending, with equal scores in reverse order
RECURSIVE InsertDescReversingTies(_, _)
InsertDescReversingTies(sorted, x) ==
    IF sorted = <<>> THEN <<x>>
    ELSE IF Head(sorted).relevance_score > x.relevance_score
         THEN <<Head(sorted)>> \o InsertDescReversingTies(Tail(sorted), x)
         ELSE <<x>> \o sorted

\* list.sort(key=relevance_score, reverse=True): descending and stable
RECURSIVE InsertDesc(_, _)
InsertDesc(sorted, x) ==
    IF sorted = <<>> THEN <<x>>
    ELSE IF Head(sorted).relevance_score >= x.relevance_score
         THEN <<Head(sorted)>> \o InsertDesc(Tail(sorted), x)
         ELSE <<x>> \o sorted

\* a descending, stable sort by the raw similarity instead of the relevance score
RECURSIVE InsertDescBySimilarity(_, _)
InsertDescBySimilarity(sorted, x) ==
    IF sorted = <<>> THEN <<x>>
    ELSE IF Head(sorted).similarity_score >= x.similarity_score
         THEN <<Head(sorted)>> \o InsertDescBySimilarity(Tail(sorted), x)
         ELSE <<x>> \o sorted

RECURSIVE SortBySimilarity(_)
SortBySimilarity(s) ==
    IF s = <<>> THEN <<>>
    ELSE InsertDescBySimilarity(SortBySimilarity(SubSeq(s, 1, Len(s) - 1)), s[Len(s)])

RECURSIVE SortByRelevance(_)
SortByRelevance(s) ==
    IF s = <<>> THEN <<>>
    ELSE InsertDesc(SortByRelevance(SubSeq(s, 1, Len(s) - 1)), s[Len(s)])

----------------------------------------------------------------------------
(* Inputs: what the stores hold and what the collaborators answer *)

TopicLists == {<<>>, <<EmptyStr>>, <<(<<"rag">>), (<<"llm">>)>>}

ProgressRows ==
    {[present |-> FALSE, current_week |-> 0, current_topics |-> <<>>]}
    \cup {[present |-> TRUE, current_week |-> 3, current_topics |-> t] : t \in TopicLists}

\* the rows update_progress may write
UpdateRows == {[present |-> TRUE, current_week |-> 5, current_topics |-> t] : t \in TopicLists}

Similarities ==
    {[has_similarity |-> FALSE, similarity |-> 0],
     [has_similarity |-> TRUE, similarity |-> 612]}

PublishedValues ==
    {[kind |-> "missing", days_old |-> 0], [kind |-> "naive", days_old |-> 3]}

\* a row of match_learning_content; the id is the row's position in the result
Candidate(k, sim, pub) ==
    [id |-> k, has_similarity |-> sim.has_similarity, similarity |-> sim.similarity,
     published |-> pub]

\* what search_content_by_embedding may return for a limit
SearchResults(limit) ==
    UNION {
        {[k \in 1..n |-> Candidate(k, f[k][1], f[k][2])] :
            f \in [1..n -> Similarities \X PublishedValues]}
        : n \in 0..Min(Max(limit, 0), MaxRetrieved)}

\* replies of the generation service to the insight prompt for item k: a plain
\* insight, or reasoning without an answer (cut off for the first item, closed
\* with nothing behind it for the later ones)
InsightReplies(k) ==
    {<<"insight", ToString(k)>>,
     IF k = 1 THEN <<StartTag, "reasoning">> ELSE <<StartTag, "reasoning", EndTag>>}

\* replies of the generation service to the relevance prompt for item k: text
\* that is no number, a number above 1, and a number below 0 (first item) or
\* inside [0,1] (later items)
RelevanceReplies(k) ==
    {[numeric |-> FALSE, value |-> 0], [numeric |-> TRUE, value |-> 1500],
     [numeric |-> TRUE, value |-> IF k = 1 THEN 0 - 200 ELSE 300]}

SummaryReplies == {<<"summary">>}

----------------------------------------------------------------------------
(* The tool call *)

NoContext == [current_week |-> 0, current_topics |-> <<>>]

NoResult == [returned |-> FALSE]

\* no helper is called on its own while the tool runs
NoHelperCall == [helper |-> "none"]

Init ==
    /\ helper_call = NoHelperCall
    /\ tool = "none"
    /\ store_at_call = <<>>
    /\ pc = "idle"
    /\ user_progress \in ProgressRows
    /\ daily_insights = <<>>
    /\ num_insights = 0
    /\ user_context = NoContext
    /\ relevant_content = <<>>
    /\ idx = 0
    /\ insight_text = EmptyStr
    /\ insights = <<>>
    /\ store_idx = 0
    /\ calls = <<>>
    /\ result = NoResult

\* the tool without its except branch: the exception leaves the tool
ReturnFailurePropagating(message) ==
    /\ pc' = "raised"
    /\ result' = result

\* server.generate_daily_digest: the except branch
ReturnFailure(message) ==
    /\ pc' = "done"
    /\ result' = [returned |-> TRUE, success |-> FALSE, error |-> message]

\* server.generate_daily_digest: the digest came back
ReturnDigest(digest) ==
    /\ pc' = "done"
    /\ result' = [returned |-> TRUE, success |-> TRUE, digest |-> digest]

\* generate_daily_digest: the digest returned when nothing was retrieved
EmptyDigest == [insights |-> <<>>, summary |-> FIXED_SUMMARY]

\* generate_daily_digest: the digest returned at the end
FullDigest(summary) ==
    [week |-> user_context.current_week, topics |-> user_context.current_topics,
     summary |-> summary, insights |-> insights, total_insights |-> Len(insights)]

\* the check left out: the build goes on without a stored row
ProgressMissingIgnored(row) == FALSE

\* generate_daily_digest: `if not user_progress`
ProgressMissing(row) == ~row.present

\* the guard left out: an empty query text is searched for like any other
QueryIsEmptyIgnored(query_text) == FALSE

\* retrieve_relevant_content: `if not query_text`
QueryIsEmpty(query_text) == query_text = EmptyStr

\* the relaxed search issued whatever the primary search found
NeedsRelaxedSearchAlways(found) == TRUE

\* retrieve_relevant_content: `if len(relevant_content) == 0`
NeedsRelaxedSearch(found) == Len(found) = 0

\* the check left out: an empty retrieval goes through the whole build
NothingRetrievedIgnored(content) == FALSE

\* generate_daily_digest: `if not relevant_content`
NothingRetrieved(content) == content = <<>>

\* the slice one short: content_items[:max_insights - 1]
LoopItemsOneShort(content) == Take(content, num_insights - 1)

\* the slice left out: the loop visits every retrieved item
LoopItemsUnsliced(content) == content

\* content_items[:max_insights], the items the loop visits
LoopItems(content) == Take(content, num_insights)

\* generate_insights_from_content after its loop, then generate_daily_digest
\* up to its next call: the sort, and the persistence loop or the summary
FinishLoop(collected) ==
    LET sorted == SortByRelevance(collected)
    IN  /\ insights' = sorted
        /\ IF sorted = <<>>
           THEN pc' = "summary" /\ store_idx' = 0
           ELSE pc' = "store" /\ store_idx' = 1

\* the loop's step to the next item, or past its end
NextItem(collected) ==
    IF idx < Len(LoopItems(relevant_content))
    THEN /\ insights' = collected
         /\ idx' = idx + 1
         /\ pc' = "gen"
         /\ store_idx' = store_idx
    ELSE /\ idx' = idx
         /\ FinishLoop(collected)

\* generate_daily_digest once retrieve_relevant_content returned `content`
AfterRetrieval(content) ==
    /\ relevant_content' = content
    /\ IF NothingRetrieved(content)
       THEN /\ ReturnDigest(EmptyDigest)
            /\ UNCHANGED <<idx, insights, store_idx>>
       ELSE IF LoopItems(content) = <<>>
       THEN /\ idx' = 0
            /\ FinishLoop(<<>>)
            /\ UNCHANGED result
       ELSE /\ idx' = 1
            /\ pc' = "gen"
            /\ UNCHANGED <<insights, store_idx, result>>

\* no tool call is running: the server waits for the next one
Waiting == pc \in {"idle", "done"}

\* a tool call starts with fresh locals
FreshLocals ==
    /\ user_context' = NoContext
    /\ relevant_content' = <<>>
    /\ idx' = 0
    /\ insight_text' = EmptyStr
    /\ insights' = <<>>
    /\ store_idx' = 0
    /\ calls' = <<>>
    /\ result' = NoResult

\* the tool generate_daily_digest is called with num_insights = n
CallTool(n) ==
    /\ Waiting
    /\ Len(daily_insights) + n <= MaxStored
    /\ tool' = "generate_daily_digest"
    /\ store_at_call' = daily_insights
    /\ num_insights' = n
    /\ pc' = "get_progress"
    /\ FreshLocals
    /\ UNCHANGED <<helper_call, user_progress, daily_insights>>

\* the tool update_progress is called with a week and topics: the row of the
\* single user is upserted, or the upsert raises and the row stays
UpdateProgress(row) ==
    /\ Waiting
    /\ tool' = "update_progress"
    /\ store_at_call' = daily_insights
    /\ num_insights' = 0
    /\ user_context' = NoContext
    /\ relevant_content' = <<>>
    /\ idx' = 0
    /\ insight_text' = EmptyStr
    /\ insights' = <<>>
    /\ store_idx' = 0
    /\ pc' = "done"
    /\ \/ /\ calls' = <<[op |-> "update_user_progress", row |-> row, raised |-> TRUE]>>
          /\ result' = [returned |-> TRUE, success |-> FALSE, error |-> EXTERNAL_ERROR]
          /\ UNCHANGED user_progress
       \/ /\ calls' = <<[op |-> "update_user_progress", row |-> row, raised |-> FALSE]>>
          /\ result' = [returned |-> TRUE, success |-> TRUE, progress |-> row]
          /\ user_progress' = row
    /\ UNCHANGED <<helper_call, daily_insights>>

\* get_user_progress answers; without a row the build raises ValueError;
\* with one, retrieve_relevant_content builds the query text and either
\* returns [] at once or goes on to the query embedding
GetUserProgress ==
    /\ pc = "get_progress"
    /\ \/ /\ calls' = Append(calls, [op |-> "get_user_progress", raised |-> TRUE])
          /\ ReturnFailure(EXTERNAL_ERROR)
          /\ UNCHANGED <<user_context, relevant_content, idx, insights, store_idx>>
       \/ /\ ProgressMissing(user_progress)
          /\ calls' = Append(calls, [op |-> "get_user_progress", raised |-> FALSE])
          /\ ReturnFailure(NO_PROGRESS_MESSAGE)
          /\ UNCHANGED <<user_context, relevant_content, idx, insights, store_idx>>
       \/ /\ ~ProgressMissing(user_progress)
          /\ calls' = Append(calls, [op |-> "get_user_progress", raised |-> FALSE])
          /\ user_context' = [current_week |-> user_progress.current_week,
                              current_topics |-> user_progress.current_topics]
          /\ IF QueryIsEmpty(Join(user_progress.current_topics))
             THEN AfterRetrieval(<<>>)
             ELSE /\ pc' = "embed"
                  /\ UNCHANGED <<relevant_content, idx, insights, store_idx, result>>
    /\ UNCHANGED <<helper_call, tool, store_at_call, user_progress, daily_insights,
                   num_insights, insight_text>>

\* generate_embedding(query_text) runs in the server's own process: it gives the
\* query vector of the searches, or its exception leaves the build
GenerateEmbedding ==
    /\ pc = "embed"
    /\ \/ ReturnFailure(EXTERNAL_ERROR)
       \/ pc' = "primary" /\ UNCHANGED result
    /\ UNCHANGED <<helper_call, tool, store_at_call, user_progress, daily_insights,
                   num_insights, user_context, relevant_content, idx, insight_text,
                   insights, store_idx, calls>>

\* top_k = num_insights * 2
TopK == num_insights * OVERFETCH_FACTOR

SearchCall(threshold, raised, answer) ==
    [op |-> "search", threshold |-> threshold, limit |-> TopK,
     raised |-> raised, answer |-> answer]

\* the primary search answers
SearchPrimary ==
    /\ pc = "primary"
    /\ \/ /\ calls' = Append(calls, SearchCall(PRIMARY_THRESHOLD, TRUE, <<>>))
          /\ ReturnFailure(EXTERNAL_ERROR)
          /\ UNCHANGED <<relevant_content, idx, insights, store_idx>>
       \/ \E found \in SearchResults(TopK) :
            /\ calls' = Append(calls, SearchCall(PRIMARY_THRESHOLD, FALSE, found))
            /\ IF NeedsRelaxedSearch(found)
               THEN /\ pc' = "relaxed"
                    /\ UNCHANGED <<relevant_content, idx, insights, store_idx, result>>
               ELSE AfterRetrieval(found)
    /\ UNCHANGED <<helper_call, tool, store_at_call, user_progress, daily_insights,
                   num_insights, user_context, insight_text>>

\* the relaxed search answers
SearchRelaxed ==
    /\ pc = "relaxed"
    /\ \/ /\ calls' = Append(calls, SearchCall(RELAXED_THRESHOLD, TRUE, <<>>))
          /\ ReturnFailure(EXTERNAL_ERROR)
          /\ UNCHANGED <<relevant_content, idx, insights, store_idx>>
       \/ \E found \in SearchResults(TopK) :
            /\ calls' = Append(calls, SearchCall(RELAXED_THRESHOLD, FALSE, found))
            /\ AfterRetrieval(found)
    /\ UNCHANGED <<helper_call, tool, store_at_call, user_progress, daily_insights,
                   num_insights, user_context, insight_text>>

\* the loop left at the first exception
SkipItemLeavingLoop ==
    /\ idx' = idx
    /\ FinishLoop(insights)

\* generate_insights_from_content: the except branch logs and goes on
SkipItem == NextItem(insights)

\* generate_insight answers for the current item: an exception skips the item
GenerateInsight ==
    /\ pc = "gen"
    /\ LET item == relevant_content[idx]
       IN  \/ /\ calls' = Append(calls, [op |-> "generate_insight", id |-> item.id,
                                         raised |-> TRUE, reply |-> EmptyStr])
              /\ SkipItem
              /\ UNCHANGED insight_text
           \/ \E reply \in InsightReplies(item.id) :
                /\ calls' = Append(calls, [op |-> "generate_insight", id |-> item.id,
                                           raised |-> FALSE, reply |-> reply])
                /\ insight_text' = ExtractFinalOutput(Strip(reply))
                /\ pc' = "score"
                /\ UNCHANGED <<idx, insights, store_idx>>
    /\ UNCHANGED <<helper_call, tool, store_at_call, user_progress, daily_insights,
                   num_insights, user_context, relevant_content, result>>

\* the insight dictionary of one item
MakeInsight(item, text, relevance_score) ==
    [insight |-> text, content_id |-> item.id, relevance_score |-> relevance_score,
     similarity_score |-> SimilarityRecorded(item), metadata |-> item.published]

\* a loop that drops an insight whose text is one of the two error texts
AppendInsightUnlessError(list, insight) ==
    IF insight.insight \in {ERR_ONLY_THINKING, ERR_INCOMPLETE} THEN list
    ELSE Append(list, insight)

\* insights.append(insight)
AppendInsight(list, insight) == Append(list, insight)

\* score_content_relevance answers for the current item: an exception skips the
\* item, a reply gives the item's insight
ScoreRelevance ==
    /\ pc = "score"
    /\ LET item == relevant_content[idx]
       IN  \/ /\ calls' = Append(calls, [op |-> "score_content_relevance", id |-> item.id,
                                         raised |-> TRUE,
                                         reply |-> [numeric |-> FALSE, value |-> 0]])
              /\ SkipItem
           \/ \E reply \in RelevanceReplies(item.id) :
                /\ calls' = Append(calls, [op |-> "score_content_relevance", id |-> item.id,
                                           raised |-> FALSE, reply |-> reply])
                /\ NextItem(AppendInsight(insights,
                        MakeInsight(item, insight_text, CalculateRelevanceScore(item, reply))))
    /\ insight_text' = EmptyStr
    /\ UNCHANGED <<helper_call, tool, store_at_call, user_progress, daily_insights,
                   num_insights, user_context, relevant_content, result>>

\* the row store_daily_insight inserts
InsightRow(insight) ==
    [insight |-> insight.insight, content_id |-> insight.content_id,
     relevance_score |-> insight.relevance_score, week |-> user_context.current_week]

\* an insert that replaces what the table held
InsertReplacing(table, row) == <<row>>

\* table("daily_insights").insert(data)
Insert(table, row) == Append(table, row)

\* store_daily_insight answers for the next insight: an exception leaves the build
StoreDailyInsight ==
    /\ pc = "store"
    /\ LET row == InsightRow(insights[store_idx])
       IN  \/ /\ calls' = Append(calls, [op |-> "store_daily_insight", row |-> row,
                                         raised |-> TRUE])
              /\ ReturnFailure(EXTERNAL_ERROR)
              /\ UNCHANGED <<daily_insights, store_idx>>
           \/ /\ calls' = Append(calls, [op |-> "store_daily_insight", row |-> row,
                                         raised |-> FALSE])
              /\ daily_insights' = Insert(daily_insights, row)
              /\ IF store_idx < Len(insights)
                 THEN store_idx' = store_idx + 1 /\ pc' = "store"
                 ELSE store_idx' = store_idx /\ pc' = "summary"
              /\ UNCHANGED result
    /\ UNCHANGED <<helper_call, tool, store_at_call, user_progress, num_insights,
                   user_context, relevant_content, idx, insight_text, insights>>

\* the insight texts in the reverse of the list's order
InsightTextsReversed(list) == [k \in 1..Len(list) |-> list[Len(list) + 1 - k].insight]

\* [i["insight"] for i in insights]
InsightTexts(list) == [k \in 1..Len(list) |-> list[k].insight]

\* generate_daily_digest_summary answers
GenerateSummary ==
    /\ pc = "summary"
    /\ \/ /\ calls' = Append(calls, [op |-> "summary", insights |-> InsightTexts(insights),
                                     raised |-> TRUE])
          /\ ReturnFailure(EXTERNAL_ERROR)
       \/ \E reply \in SummaryReplies :
            /\ calls' = Append(calls, [op |-> "summary", insights |-> InsightTexts(insights),
                                       raised |-> FALSE])
            /\ ReturnDigest(FullDigest(Strip(reply)))
    /\ UNCHANGED <<helper_call, tool, store_at_call, user_progress, daily_insights,
                   num_insights, user_context, relevant_content, idx, insight_text,
                   insights, store_idx>>

Next ==
    \/ \E n \in 0..MaxN : CallTool(n)
    \/ \E row \in UpdateRows : UpdateProgress(row)
    \/ GetUserProgress
    \/ GenerateEmbedding
    \/ SearchPrimary
    \/ SearchRelaxed
    \/ GenerateInsight
    \/ ScoreRelevance
    \/ StoreDailyInsight
    \/ GenerateSummary

Spec == Init /\ [][Next]_vars

----------------------------------------------------------------------------
(* The freshness helper called on its own, for two documents in turn *)

\* (now - pub_date).days for the dates the helper is given
Ages == (0 - MaxFuture)..MaxAge

\* the "published" entry of a document's metadata: absent or empty, not an
\* ISO timestamp, an ISO timestamp without offset, or one with "Z" or an offset
PublishedDates ==
    {[kind |-> "missing", days_old |-> 0], [kind |-> "unparseable", days_old |-> 0]}
    \cup {[kind |-> k, days_old |-> d] : k \in {"naive", "aware"}, d \in Ages}

\* nothing of the tool call has happened
PipelineIdle ==
    /\ tool = "none"
    /\ store_at_call = <<>>
    /\ pc = "idle"
    /\ user_progress = [present |-> FALSE, current_week |-> 0, current_topics |-> <<>>]
    /\ daily_insights = <<>>
    /\ num_insights = 0
    /\ user_context = NoContext
    /\ relevant_content = <<>>
    /\ idx = 0
    /\ insight_text = EmptyStr
    /\ insights = <<>>
    /\ store_idx = 0
    /\ calls = <<>>
    /\ result = NoResult

FreshnessInit ==
    /\ PipelineIdle
    /\ \E first \in PublishedDates, second \in PublishedDates :
         helper_call = [helper |-> "_calculate_freshness",
                        published |-> <<first, second>>, freshness |-> <<>>]

\* one call of _calculate_freshness, for the next of the two documents
CalculateFreshnessCall ==
    /\ helper_call.helper = "_calculate_freshness"
    /\ Len(helper_call.freshness) < Len(helper_call.published)
    /\ helper_call' =
         [helper_call EXCEPT !.freshness =
             Append(@, CalculateFreshness(helper_call.published[Len(@) + 1]))]
    /\ UNCHANGED pipeline_vars

FreshnessNext == CalculateFreshnessCall

FreshnessSpec == FreshnessInit /\ [][FreshnessNext]_vars

----------------------------------------------------------------------------
(* The extraction helper called on its own *)

\* the tokens of a raw reply
ReplyTokens == {StartTag, EndTag, Space, "insight"}

\* the raw replies of the generation service, up to MaxReplyLen tokens
RawReplies == UNION {[1..n -> ReplyTokens] : n \in 0..MaxReplyLen}

ExtractInit ==
    /\ PipelineIdle
    /\ \E text \in RawReplies :
         helper_call = [helper |-> "_extract_final_output", text |-> text,
                        returned |-> FALSE, output |-> EmptyStr]

\* one call of _extract_final_output
ExtractFinalOutputCall ==
    /\ helper_call.helper = "_extract_final_output"
    /\ ~helper_call.returned
    /\ helper_call' = [helper_call EXCEPT !.returned = TRUE,
                                          !.output = ExtractFinalOutput(helper_call.text)]
    /\ UNCHANGED pipeline_vars

ExtractNext == ExtractFinalOutputCall

ExtractSpec == ExtractInit /\ [][ExtractNext]_vars

----------------------------------------------------------------------------
(* What the call log and the result say *)

CallsOf(op) == SelectSeq(calls, LAMBDA c : c.op = op)

CallCount(op) == Len(CallsOf(op))

SearchesAt(threshold) ==
    SelectSeq(calls, LAMBDA c : c.op = "search" /\ c.threshold = threshold)

\* get_user_progress returned (a row or None) rather than raising
ProgressRead == calls # <<>> /\ calls[1].op = "get_user_progress" /\ ~calls[1].raised

\* the learner context of the stored row joins to an empty query text
EmptyQueryStored ==
    user_progress.present /\ Join(user_progress.current_topics) = EmptyStr

\* the last tool call was a digest request
DigestTool == tool = "generate_daily_digest"

\* the rows the running or last tool call added to the daily_insights table
BuildRows == SubSeq(daily_insights, Len(store_at_call) + 1, Len(daily_insights))

\* the digest request returned a digest
DigestReturned == DigestTool /\ pc = "done" /\ result.success

\* retrieve_relevant_content has returned to generate_daily_digest
RetrievalReturned ==
    \/ pc \in {"gen", "score", "store", "summary"}
    \/ DigestReturned
    \/ pc = "done" /\ CallCount("store_daily_insight") + CallCount("summary") > 0

----------------------------------------------------------------------------
(* C1: with a stored learner context whose topics join to an empty query   *)
(* text, no vector-store search is ever issued, the primary search is      *)
(* never awaited, and the build returns a digest with an empty insight     *)
(* list.                                                                   *)
C1_EmptyQueryNoSearch ==
    EmptyQueryStored =>
        /\ CallCount("search") = 0
        /\ pc \notin {"primary", "relaxed"}
        /\ (pc = "done" /\ ProgressRead) =>
               /\ result.success
               /\ result.digest.insights = <<>>

C1_Witness ==
    /\ EmptyQueryStored
    /\ user_progress.current_topics # <<>>
    /\ num_insights > 0
    /\ DigestReturned
    /\ result.digest.insights = <<>>
    /\ CallCount("search") = 0

(* C2: a retrieval with a non-empty query issues the primary search        *)
(* (threshold 0.25, limit 2N) exactly once; it issues the relaxed search   *)
(* (threshold 0.15, same limit) exactly once if the primary search found   *)
(* nothing and never otherwise; no search follows the relaxed one, so at   *)
(* most two searches are issued.                                           *)
C2_SearchesIssued ==
    LET searches == CallsOf("search")
        primary == SearchesAt(PRIMARY_THRESHOLD)
        relaxed == SearchesAt(RELAXED_THRESHOLD)
    IN  /\ Len(searches) <= 2
        /\ Len(searches) = Len(primary) + Len(relaxed)
        /\ Len(primary) <= 1
        /\ Len(relaxed) <= 1
        /\ \A k \in 1..Len(searches) : searches[k].limit = OVERFETCH_FACTOR * num_insights
        /\ Len(searches) >= 1 => searches[1].threshold = PRIMARY_THRESHOLD
        /\ Len(relaxed) = 1 =>
               /\ Len(primary) = 1
               /\ searches[2].threshold = RELAXED_THRESHOLD
               /\ ~primary[1].raised
               /\ Len(primary[1].answer) = 0
        /\ (RetrievalReturned /\ ~EmptyQueryStored) =>
               /\ Len(primary) = 1
               /\ Len(relaxed) = (IF Len(primary[1].answer) = 0 THEN 1 ELSE 0)

C2_Witness ==
    /\ DigestReturned
    /\ Len(SearchesAt(PRIMARY_THRESHOLD)) = 1
    /\ Len(SearchesAt(RELAXED_THRESHOLD)) = 1
    /\ Len(SearchesAt(RELAXED_THRESHOLD)[1].answer) = 0
    /\ CallCount("search") = 2

(* Sub-signals of an insight, read from its candidate and the call log *)

\* the reply score_content_relevance got for candidate k
ScoreReplyFor(k) ==
    calls[CHOOSE n \in 1..Len(calls) :
              /\ calls[n].op = "score_content_relevance"
              /\ calls[n].id = k
              /\ ~calls[n].raised].reply

\* <<similarity, topic relevance, freshness>> behind insight x
SubSignals(x) ==
    LET item == relevant_content[x.content_id]
    IN  <<SimilarityForScoring(item),
          ScoreContentRelevance(ScoreReplyFor(x.content_id)),
          CalculateFreshness(item.published)>>

\* the weighted sum of three sub-signals, in ten-thousandths
ExactSum(sub) == 4 * sub[1] + 4 * sub[2] + 2 * sub[3]

(* C3: the relevance score of every insight is                             *)
(* round(0.4*similarity + 0.4*topicRelevance + 0.2*freshness, 3) of its    *)
(* candidate's three sub-signals (the thousandth nearest to the weighted   *)
(* sum), two insights with equal sub-signals have equal scores, and the    *)
(* score lies in [0,1] whenever the three sub-signals do.                  *)
C3_RelevanceScoreFormula ==
    LET subs == [n \in 1..Len(insights) |-> SubSignals(insights[n])]
    IN  /\ \A n \in 1..Len(insights) :
             LET x == insights[n]
                 sub == subs[n]
             IN  /\ 10 * x.relevance_score - ExactSum(sub) \in -5..5
                 /\ (\A j \in 1..3 : sub[j] \in 0..1000) => x.relevance_score \in 0..1000
        /\ \A n, m \in 1..Len(insights) :
             subs[n] = subs[m]
                 => insights[n].relevance_score = insights[m].relevance_score

C3_Witness ==
    /\ DigestReturned
    /\ \E n \in 1..Len(result.digest.insights) :
         LET x == result.digest.insights[n]
         IN  /\ ExactSum(SubSignals(x)) % 10 = 8
             /\ 10 * x.relevance_score > ExactSum(SubSignals(x))

(* C4: the insight list of a returned digest is never longer than the      *)
(* requested insight count.                                                *)
C4_AtMostRequested ==
    DigestReturned => Len(result.digest.insights) <= num_insights

C4_Witness ==
    /\ DigestReturned
    /\ num_insights >= 1
    /\ Len(relevant_content) > num_insights
    /\ Len(result.digest.insights) = num_insights

(* C5: the insight list of a returned digest is in non-increasing order of *)
(* relevance score, and insights of equal score are in the order in which  *)
(* their candidates were retrieved.                                        *)
C5_SortedStable ==
    DigestReturned =>
        LET list == result.digest.insights
        IN  \A n, m \in 1..Len(list) :
              n < m =>
                /\ list[n].relevance_score >= list[m].relevance_score
                /\ list[n].relevance_score = list[m].relevance_score
                     => list[n].content_id < list[m].content_id

C5_Witness ==
    /\ DigestReturned
    /\ Len(result.digest.insights) = 2
    /\ result.digest.insights[1].relevance_score = result.digest.insights[2].relevance_score
    /\ result.digest.insights[1].content_id = 1
    /\ result.digest.insights[2].content_id = 2

(* Candidates in the call log *)

\* the positions the loop is to visit: 1..min(N, number retrieved)
FirstN == 1..Min(num_insights, Len(relevant_content))

GenerationCallsFor(k) ==
    Cardinality({n \in 1..Len(calls) : calls[n].op = "generate_insight" /\ calls[n].id = k})

\* generation or scoring of candidate k raised
Failed(k) ==
    \E n \in 1..Len(calls) :
        /\ calls[n].op \in {"generate_insight", "score_content_relevance"}
        /\ calls[n].id = k
        /\ calls[n].raised

HasInsight(list, k) == \E n \in 1..Len(list) : list[n].content_id = k

\* generate_insights_from_content has returned
LoopFinished ==
    \/ pc \in {"store", "summary"}
    \/ pc = "done" /\ CallCount("store_daily_insight") + CallCount("summary") > 0

(* C6, as claimed: whenever retrieval returned at least one candidate, the *)
(* returned digest holds at least one insight.                             *)
C6_NonEmptyRetrievalGivesInsight ==
    (DigestReturned /\ relevant_content # <<>>) => result.digest.insights # <<>>

(* C6, amended: the insight list of a returned digest is empty only when   *)
(* retrieval yielded zero candidates or generation or scoring failed for   *)
(* every one of the first N retrieved candidates.                          *)
C6_EmptyOnlyIfNothingSucceeded ==
    (DigestReturned /\ result.digest.insights = <<>>) =>
        \/ relevant_content = <<>>
        \/ \A k \in FirstN : Failed(k)

C6_Witness ==
    /\ DigestReturned
    /\ result.digest.insights = <<>>
    /\ Len(relevant_content) = 2
    /\ num_insights = 2
    /\ Failed(1)
    /\ Failed(2)

(* C7: an exception of generate_insight or score_content_relevance for one *)
(* candidate skips that candidate alone: once the loop is over, each of    *)
(* the first N candidates has had its generation call exactly once, the    *)
(* insights are those of exactly the candidates that did not fail, each    *)
(* with its insight text and its relevance score, and no such exception    *)
(* ends the tool call.                                                     *)
C7_FailureSkipsOneCandidate ==
    /\ LoopFinished =>
         \A k \in FirstN :
            /\ GenerationCallsFor(k) = 1
            /\ HasInsight(insights, k) <=> ~Failed(k)
    /\ \A n \in 1..Len(insights) :
         /\ {"insight", "relevance_score"} \subseteq DOMAIN insights[n]
         /\ insights[n].insight \in
                {ExtractFinalOutput(Strip(r)) : r \in InsightReplies(insights[n].content_id)}
         /\ insights[n].relevance_score \in 0..1000
    /\ (pc = "done" /\ calls # <<>>) =>
         calls[Len(calls)].op \notin {"generate_insight", "score_content_relevance"}

C7_Witness ==
    /\ DigestReturned
    /\ num_insights = 2
    /\ Failed(1)
    /\ ~Failed(2)
    /\ Len(result.digest.insights) = 1
    /\ result.digest.insights[1].content_id = 2

\* a store_daily_insight call of this build raised
StoreRaised ==
    \E n \in 1..Len(calls) : calls[n].op = "store_daily_insight" /\ calls[n].raised

(* C8, as claimed: when store_daily_insight raises for one insight, the    *)
(* other insights are still persisted and the digest is still returned.    *)
C8_PersistenceBestEffort ==
    (pc = "done" /\ StoreRaised) =>
        /\ result.success
        /\ Len(BuildRows) >= Len(insights) - 1

(* C9: without a stored learner context the build fails with the           *)
(* no-progress error before any search, generation, scoring, persistence   *)
(* or summary call, and the tool returns success = false with that error's *)
(* message.                                                                *)
C9_NoProgressFailsFirst ==
    (DigestTool /\ ~user_progress.present) =>
        /\ \A n \in 1..Len(calls) : calls[n].op = "get_user_progress"
        /\ Len(calls) <= 1
        /\ pc \in {"get_progress", "done"}
        /\ daily_insights = store_at_call
        /\ (pc = "done" /\ ProgressRead) =>
               /\ ~result.success
               /\ result.error = NO_PROGRESS_MESSAGE
               /\ result.error # EXTERNAL_ERROR

C9_Witness ==
    /\ DigestTool
    /\ ~user_progress.present
    /\ pc = "done"
    /\ ProgressRead
    /\ ~result.success
    /\ result.error = NO_PROGRESS_MESSAGE

\* the primary and the relaxed search both answered with zero rows
BothSearchesEmpty ==
    LET searches == CallsOf("search")
    IN  /\ Len(searches) = 2
        /\ \A k \in 1..2 : ~searches[k].raised /\ searches[k].answer = <<>>

\* retrieve_relevant_content returned []
RetrievedNothing ==
    /\ ProgressRead
    /\ user_progress.present
    /\ EmptyQueryStored \/ BothSearchesEmpty

(* C10: when retrieval yields zero candidates (an empty query text, or     *)
(* both searches answered with nothing), the tool returns success = true   *)
(* with a digest of no insights and the fixed, non-empty summary, and no   *)
(* generation, scoring, persistence or summary call is issued.             *)
C10_EmptyRetrievalIsSuccess ==
    RetrievedNothing =>
        /\ pc = "done"
        /\ result.success
        /\ result.digest.insights = <<>>
        /\ result.digest.summary = FIXED_SUMMARY
        /\ FIXED_SUMMARY # EmptyStr
        /\ \A n \in 1..Len(calls) : calls[n].op \in {"get_user_progress", "search"}
        /\ daily_insights = store_at_call

C10_Witness ==
    /\ BothSearchesEmpty
    /\ num_insights = 2
    /\ DigestReturned
    /\ result.digest.summary = FIXED_SUMMARY
    /\ Len(calls) = 3

----------------------------------------------------------------------------
(* The tool boundary *)

\* the positions of a tool call
Positions ==
    {"idle", "get_progress", "embed", "primary", "relaxed", "gen", "score", "store",
     "summary", "done"}

\* the operations whose exception is not caught inside the candidate loop
UncaughtInLoop == {"get_user_progress", "search", "store_daily_insight", "summary"}

\* the last external call raised outside the candidate loop
LastCallRaisedOutsideLoop ==
    /\ calls # <<>>
    /\ calls[Len(calls)].raised
    /\ calls[Len(calls)].op \in UncaughtInLoop

\* C11: whatever the progress store, the vector store, the generation service
\* and the insight store do, the tool ends with a structured result: a success
\* flag with a digest, or a failure flag with an error message; an exception
\* of a collaborator never leaves the tool.
C11_AlwaysStructuredResult ==
    /\ pc \in Positions
    /\ result.returned <=> pc = "done"
    /\ (DigestTool /\ pc = "done") =>
          /\ result.success \in BOOLEAN
          /\ result.success => DOMAIN result = {"returned", "success", "digest"}
          /\ ~result.success =>
                /\ DOMAIN result = {"returned", "success", "error"}
                /\ result.error \in {EXTERNAL_ERROR, NO_PROGRESS_MESSAGE}
    /\ LastCallRaisedOutsideLoop => pc = "done" /\ ~result.success

\* the insight store fails after one insight was generated and the caller gets
\* the failure as a result
C11_Witness ==
    /\ DigestTool
    /\ pc = "done"
    /\ ~result.success
    /\ result.error = EXTERNAL_ERROR
    /\ calls[Len(calls)].op = "store_daily_insight"
    /\ calls[Len(calls)].raised

----------------------------------------------------------------------------
(* Freshness *)

\* the freshness ladder as the specification words it
StepOfAge(age) ==
    IF age <= 0 THEN 1000
    ELSE IF age <= 7 THEN 900
    ELSE IF age <= 30 THEN 700
    ELSE IF age <= 90 THEN 400
    ELSE 200

\* the freshness calls answered so far
FreshnessCalls ==
    IF helper_call.helper = "_calculate_freshness"
    THEN 1..Len(helper_call.freshness) ELSE {}

\* the timestamp is present and fromisoformat accepts it
PresentAndParseable(published) == published.kind \in {"naive", "aware"}

\* C12: for every document with a present, parseable publication timestamp
\* freshness is the step function of its age in days (1.0 up to 0, 0.9 up to 7,
\* 0.7 up to 30, 0.4 up to 90, else 0.2), and the neutral 0.5 is returned only
\* for a missing or unparseable timestamp.
C12_FreshnessIsStepOfAge ==
    \A k \in FreshnessCalls :
        LET published == helper_call.published[k]
            freshness == helper_call.freshness[k]
        IN  /\ PresentAndParseable(published) => freshness = StepOfAge(published.days_old)
            /\ freshness = NEUTRAL_FRESHNESS => ~PresentAndParseable(published)

\* both documents went through the ladder of lines 251-261
BothAgesComputed ==
    /\ FreshnessCalls = {1, 2}
    /\ helper_call.published[1].kind = "naive"
    /\ helper_call.published[2].kind = "naive"

\* C13: freshness never rises with age: of two documents whose age the helper
\* computed (future-dated ones included), the one that is not older has a
\* freshness that is not smaller.
C13_FreshnessMonotone ==
    BothAgesComputed =>
        (helper_call.published[1].days_old <= helper_call.published[2].days_old
            => helper_call.freshness[1] >= helper_call.freshness[2])

\* a future-dated document and one older than ninety days
C13_Witness ==
    /\ BothAgesComputed
    /\ helper_call.published[1].days_old < 0
    /\ helper_call.published[2].days_old > 90
    /\ helper_call.freshness = <<1000, 200>>

----------------------------------------------------------------------------
(* Extraction of the final output *)

\* the extraction helper has returned
Extracted == helper_call.helper = "_extract_final_output" /\ helper_call.returned

\* s without its leading and trailing blanks, said by positions
Trimmed(s) ==
    LET inked == {k \in 1..Len(s) : s[k] # Space}
    IN  IF inked = {} THEN <<>>
        ELSE SubSeq(s, CHOOSE k \in inked : \A j \in inked : k <= j,
                       CHOOSE k \in inked : \A j \in inked : j <= k)

\* tok occurs at position k of s and nowhere behind it
IsLastAt(s, tok, k) == s[k] = tok /\ \A j \in (k + 1)..Len(s) : s[j] # tok

\* C14: a raw reply with at least one end marker yields the trimmed content
\* after the last end marker when that is non-empty and the "only generated
\* thinking" error text when it is empty; a reply without any marker yields
\* the reply trimmed.
C14_ContentAfterLastEndMarker ==
    Extracted =>
        LET text == helper_call.text
            output == helper_call.output
        IN  /\ \A k \in 1..Len(text) :
                  IsLastAt(text, EndTag, k) =>
                      LET after == Trimmed(SubSeq(text, k + 1, Len(text)))
                      IN  output = IF after # <<>> THEN after ELSE ERR_ONLY_THINKING
            /\ (EndTag \notin Range(text) /\ StartTag \notin Range(text))
                  => output = Trimmed(text)

\* two closed reasoning segments, the answer after the second
C14_Witness ==
    /\ Extracted
    /\ helper_call.text = <<EndTag, "insight", EndTag, "insight">>
    /\ helper_call.output = <<"insight">>

\* a start marker of s that no end marker follows
HasUnclosedStart(s) ==
    \E k \in 1..Len(s) : s[k] = StartTag /\ \A j \in (k + 1)..Len(s) : s[j] # EndTag

\* C15 as stated: every raw reply with a start marker that no end marker
\* follows yields the "incomplete response" error text, also when a closed
\* reasoning segment comes before the unclosed start marker.
C15_UnclosedStartIsIncomplete ==
    (Extracted /\ HasUnclosedStart(helper_call.text))
        => helper_call.output = ERR_INCOMPLETE

\* C15 amended: a raw reply with a start marker and no end marker at all yields
\* the "incomplete response" error text; a reply with an end marker followed by
\* an unclosed start marker yields the trimmed content after its last end
\* marker, start marker included, and never that error text.
C15_IncompleteOnlyWithoutEndMarker ==
    Extracted =>
        LET text == helper_call.text
            output == helper_call.output
        IN  /\ (StartTag \in Range(text) /\ EndTag \notin Range(text))
                  => output = ERR_INCOMPLETE
            /\ (HasUnclosedStart(text) /\ EndTag \in Range(text))
                  => /\ output # ERR_INCOMPLETE
                     /\ StartTag \in Range(output)
                     /\ \E k \in 1..Len(text) :
                           /\ IsLastAt(text, EndTag, k)
                           /\ output = Trimmed(SubSeq(text, k + 1, Len(text)))

\* a reasoning segment that was opened and never closed
C15_Witness ==
    /\ Extracted
    /\ helper_call.text = <<StartTag, "insight">>
    /\ helper_call.output = ERR_INCOMPLETE

----------------------------------------------------------------------------
(* Topic relevance *)

\* the answered score_content_relevance calls
AnsweredScoreCalls ==
    SelectSeq(calls, LAMBDA c : c.op = "score_content_relevance" /\ ~c.raised)

\* what the claim expects for a reply: the number forced into [0,1], or 0.5
ExpectedTopicRelevance(reply) ==
    IF ~reply.numeric THEN 500
    ELSE IF reply.value < 0 THEN 0
    ELSE IF reply.value > 1000 THEN 1000
    ELSE reply.value

\* the insight built for candidate k
InsightOf(k) == insights[CHOOSE n \in 1..Len(insights) : insights[n].content_id = k]

\* C16: the topic relevance of every answered scoring request lies in [0,1]:
\* a numeric reply is clamped into [0,1] and a reply that does not parse
\* counts as 0.5 without an exception, so the candidate is scored, not
\* skipped, and its fused relevance score lies in [0,1].
C16_TopicRelevanceClampedOrNeutral ==
    \A n \in 1..Len(AnsweredScoreCalls) :
        LET c == AnsweredScoreCalls[n]
            item == relevant_content[c.id]
            topic == ExpectedTopicRelevance(c.reply)
        IN  /\ topic \in 0..1000
            /\ HasInsight(insights, c.id)
            /\ InsightOf(c.id).relevance_score \in 0..1000
            /\ 10 * InsightOf(c.id).relevance_score
                  - (4 * SimilarityForScoring(item) + 4 * topic
                     + 2 * CalculateFreshness(item.published)) \in -5..5

\* a digest whose two insights were scored from a reply that is not a number
\* and from a reply below zero
C16_Witness ==
    /\ DigestReturned
    /\ Len(result.digest.insights) = 2
    /\ \E n, m \in 1..Len(AnsweredScoreCalls) :
         /\ ~AnsweredScoreCalls[n].reply.numeric
         /\ AnsweredScoreCalls[m].reply.numeric
         /\ AnsweredScoreCalls[m].reply.value < 0

----------------------------------------------------------------------------
(* Order of the per-candidate calls *)

\* the candidate loop's calls, in the order issued
LoopCalls ==
    SelectSeq(calls, LAMBDA c : c.op \in {"generate_insight", "score_content_relevance"})

\* the candidates of the calls of one operation, in the order issued
IdsOf(op) ==
    LET issued == CallsOf(op)
    IN  [n \in 1..Len(issued) |-> issued[n].id]

\* every position outside 1..min(N, retrieved) is absent and no position repeats
\* or comes before a smaller one
InRetrievalOrder(ids) ==
    /\ \A n \in 1..Len(ids) : ids[n] \in FirstN
    /\ \A n \in 1..(Len(ids) - 1) : ids[n] < ids[n + 1]

\* C17: generation and scoring are requested only for the candidates at
\* retrieval positions 1..min(N, retrieved), each at most once and in retrieval
\* order, scoring right after the candidate's own generation; a candidate
\* beyond position N gets no such request; and the digest lists the processed
\* candidates by descending fused relevance score, not by raw similarity.
C17_FirstNInRetrievalOrder ==
    /\ LET generated == IdsOf("generate_insight") IN InRetrievalOrder(generated)
    /\ LET scored == IdsOf("score_content_relevance") IN InRetrievalOrder(scored)
    /\ LET issued == LoopCalls
       IN  \A n \in 1..Len(issued) :
             issued[n].op = "score_content_relevance" =>
                 /\ n > 1
                 /\ issued[n - 1].op = "generate_insight"
                 /\ issued[n - 1].id = issued[n].id
                 /\ ~issued[n - 1].raised
    /\ LoopFinished => \A k \in FirstN : GenerationCallsFor(k) = 1
    /\ DigestReturned =>
         \A n \in 1..(Len(result.digest.insights) - 1) :
             result.digest.insights[n].relevance_score
                 >= result.digest.insights[n + 1].relevance_score

\* two candidates processed in retrieval order; the digest lists the second
\* first although its raw similarity is the smaller one
C17_Witness ==
    /\ DigestReturned
    /\ IdsOf("generate_insight") = <<1, 2>>
    /\ IdsOf("score_content_relevance") = <<1, 2>>
    /\ Len(result.digest.insights) = 2
    /\ result.digest.insights[1].content_id = 2
    /\ result.digest.insights[1].similarity_score < result.digest.insights[2].similarity_score
    /\ result.digest.insights[1].relevance_score > result.digest.insights[2].relevance_score

----------------------------------------------------------------------------
(* Over-fetching *)

\* how many of the first N candidates failed generation or scoring
FailedAmongFirstN == Cardinality({k \in FirstN : Failed(k)})

\* C18: every search asks for 2 x N candidates, and the candidates fetched
\* beyond N make up for failures: when k of the first N candidates fail and at
\* least N + k candidates were retrieved, the returned digest still holds N
\* insights.
C18_OverfetchCompensates ==
    /\ \A n \in 1..Len(CallsOf("search")) : CallsOf("search")[n].limit = 2 * num_insights
    /\ (DigestReturned /\ Len(relevant_content) >= num_insights + FailedAmongFirstN)
          => Len(result.digest.insights) = num_insights

----------------------------------------------------------------------------
(* Unresponsive collaborators *)

\* the calls to the generation service, the vector store and the insight store
TimedCalls ==
    SelectSeq(calls, LAMBDA c : c.op \in {"generate_insight", "score_content_relevance",
                                           "summary", "search", "store_daily_insight"})

\* C19: a generation, vector-store or storage call that does not answer is
\* timed out and costs at most its own candidate: the build it belongs to still
\* returns its digest and is never given up as a whole because of that call.
C19_UnresponsiveCallNeverAborts ==
    (pc = "done" /\ \E n \in 1..Len(TimedCalls) : TimedCalls[n].raised)
        => result.success

----------------------------------------------------------------------------
(* Error texts as insights *)

ErrorTexts == {ERR_ONLY_THINKING, ERR_INCOMPLETE}

\* the positions in the call log of the answered generation calls whose reply
\* resolves to an error text and whose candidate was scored by the next call
ErrorTextCalls ==
    {n \in 1..(Len(calls) - 1) :
        /\ calls[n].op = "generate_insight"
        /\ ~calls[n].raised
        /\ calls[n + 1].op = "score_content_relevance"
        /\ ~calls[n + 1].raised
        /\ ExtractFinalOutput(Strip(calls[n].reply)) \in ErrorTexts}

\* the persistence loop has stored every insight
AllStored == pc = "summary" \/ CallCount("summary") > 0

\* list holds an entry for candidate k with the given text
HoldsText(list, k, text) ==
    \E n \in 1..Len(list) : list[n].content_id = k /\ list[n].insight = text

\* C20: a candidate whose generated reply resolves to one of the two error
\* texts is not skipped: it gets a relevance score, stands in the digest's
\* insight list, is stored in the insight store and its text is part of the
\* summary request, like any other insight.
C20_ErrorTextIsAnInsight ==
    \A n \in ErrorTextCalls :
        LET k == calls[n].id
            text == ExtractFinalOutput(Strip(calls[n].reply))
        IN  /\ HoldsText(insights, k, text)
            /\ InsightOf(k).relevance_score \in 0..1000
            /\ DigestReturned => HoldsText(result.digest.insights, k, text)
            /\ AllStored => HoldsText(BuildRows, k, text)
            /\ \A m \in 1..Len(calls) :
                  calls[m].op = "summary" => text \in Range(calls[m].insights)

\* a returned digest made of both error texts, both stored
C20_Witness ==
    /\ DigestReturned
    /\ Cardinality(ErrorTextCalls) = 2
    /\ {result.digest.insights[n].insight : n \in 1..Len(result.digest.insights)} = ErrorTexts
    /\ {BuildRows[n].insight : n \in 1..Len(BuildRows)} = ErrorTexts
    /\ Range(CallsOf("summary")[1].insights) = ErrorTexts

----------------------------------------------------------------------------
(* The similarity recorded on an insight *)

\* C21: the similarity score recorded on every insight is the value that went
\* into its relevance score as the similarity sub-signal, also for a candidate
\* without a similarity, whose relevance score is computed with 0.5.
C21_RecordedSimilarityIsScored ==
    \A n \in 1..Len(insights) :
        LET x == insights[n]
            item == relevant_content[x.content_id]
            topic == ExpectedTopicRelevance(ScoreReplyFor(x.content_id))
        IN  /\ x.similarity_score = SimilarityForScoring(item)
            /\ 10 * x.relevance_score
                  - (4 * x.similarity_score + 4 * topic
                     + 2 * CalculateFreshness(item.published)) \in -5..5

----------------------------------------------------------------------------
(* Persistence and summary of a returned digest *)

\* the tool returned a digest built from at least one retrieved candidate
DigestAfterRetrieval == DigestReturned /\ relevant_content # <<>>

\* C22: when a digest is returned after a non-empty retrieval, every insight of
\* the returned list was stored exactly once, the store calls came in the
\* list's ranked order, the summary was requested once, after the last store
\* call, with the insight texts in that order, and total_insights is the
\* length of the returned list.
C22_StoredInRankedOrderThenSummarised ==
    DigestAfterRetrieval =>
        LET list == result.digest.insights
            len == Len(list)
            last == Len(calls)
        IN  /\ \A k \in 1..(len - 1) : list[k].relevance_score >= list[k + 1].relevance_score
            /\ \A j, k \in 1..len : j # k => list[j].content_id # list[k].content_id
            /\ Cardinality({n \in 1..last : calls[n].op = "store_daily_insight"}) = len
            /\ Cardinality({n \in 1..last : calls[n].op = "summary"}) = 1
            /\ calls[last].op = "summary"
            /\ calls[last].insights = [k \in 1..len |-> list[k].insight]
            /\ \A k \in 1..len :
                  LET c == calls[last - 1 - len + k]
                  IN  /\ c.op = "store_daily_insight"
                      /\ ~c.raised
                      /\ c.row.content_id = list[k].content_id
                      /\ c.row.insight = list[k].insight
                      /\ c.row.relevance_score = list[k].relevance_score
            /\ Len(BuildRows) = len
            /\ \A k \in 1..len :
                  /\ BuildRows[k].content_id = list[k].content_id
                  /\ BuildRows[k].insight = list[k].insight
            /\ SubSeq(daily_insights, 1, Len(store_at_call)) = store_at_call
            /\ result.digest.total_insights = len

\* a digest of two insights whose ranked order is the reverse of the retrieval
\* order, stored and summarised in the ranked order
C22_Witness ==
    /\ DigestAfterRetrieval
    /\ Len(result.digest.insights) = 2
    /\ result.digest.insights[1].content_id = 2
    /\ result.digest.insights[2].content_id = 1
    /\ result.digest.insights[1].insight # result.digest.insights[2].insight
    /\ BuildRows[1].content_id = 2
    /\ calls[Len(calls)].insights[1] = result.digest.insights[1].insight

----------------------------------------------------------------------------
(* The insight store after a failed build *)

\* the tool returned success = false
BuildFailed == DigestTool /\ pc = "done" /\ ~result.success

\* C23 as stated: a build that ends in failure leaves the insight store as it
\* was before the build: none of the build's insights is stored.
C23_FailureLeavesStoreUnchanged ==
    BuildFailed => daily_insights = store_at_call

\* C23 amended: a failed build leaves in the insight store exactly the insights
\* whose store call was answered before the failing call, in ranked order; the
\* store is as before only when the build failed before its first answered
\* store call, and it holds every insight when the summary request failed.
C23_FailureKeepsStoredInsights ==
    BuildFailed =>
        LET answered == {n \in 1..Len(calls) :
                            calls[n].op = "store_daily_insight" /\ ~calls[n].raised}
            last == calls[Len(calls)]
        IN  /\ SubSeq(daily_insights, 1, Len(store_at_call)) = store_at_call
            /\ Len(BuildRows) = Cardinality(answered)
            /\ Len(BuildRows) <= Len(insights)
            /\ \A k \in 1..Len(BuildRows) :
                  /\ BuildRows[k].content_id = insights[k].content_id
                  /\ BuildRows[k].insight = insights[k].insight
            /\ last.op \in {"get_user_progress", "search"} => BuildRows = <<>>
            /\ last.op = "store_daily_insight" => Len(BuildRows) < Len(insights)
            /\ last.op = "summary" => Len(BuildRows) = Len(insights)

\* the summary request fails after two insights were stored, and both stay
C23_Witness ==
    /\ BuildFailed
    /\ calls[Len(calls)].op = "summary"
    /\ calls[Len(calls)].raised
    /\ Len(BuildRows) = 2
    /\ BuildRows[1].content_id # BuildRows[2].content_id

====
